---- MODULE Spec2Model ----
(***************************************************************************)
(* The address book of address_book.py: the field validators, the contact  *)
(* record, the AddressBook directory with its upcoming-birthday scan, and   *)
(* the command loop of main().                                             *)
(*                                                                         *)
(* A Python str is a sequence of one-character strings; a literal piece of *)
(* an f-string is a one-element sequence holding the literal, so that a    *)
(* formatted message is the concatenation (\o) of its pieces.              *)
(***************************************************************************)
EXTENDS Integers, Sequences, FiniteSets, TLC

(* ------------------------------ bounds -------------------------------- *)

\* The longest argument list handed to an operation.
MaxArgs == 4
\* The number of consecutive days, from each base day, a query may be made on.
Horizon == 10

(* ------------------------- program constants -------------------------- *)

\* len(phone_number) == 10
PhoneLen == 10
\* 0 <= difference <= 7
WindowDays == 7
\* birthday_this_year.weekday() >= 5
FirstWeekendDay == 5
\* timedelta(days=(7 - birthday_this_year.weekday()))
DaysPerWeek == 7
SecondsPerDay == 86400

(* ------------------------------ strings ------------------------------- *)

AsciiDigits == {"0", "1", "2", "3", "4", "5", "6", "7", "8", "9"}
\* str.isdigit() is also true of digits outside ASCII; "U+0663" stands for
\* the one-character string ARABIC-INDIC DIGIT THREE.
OtherDigits == {"U+0663"}

IsDigitChar(c) == c \in AsciiDigits \cup OtherDigits

DigitVal(c) ==
  CASE c = "0" -> 0 [] c = "1" -> 1 [] c = "2" -> 2 [] c = "3" -> 3
    [] c = "4" -> 4 [] c = "5" -> 5 [] c = "6" -> 6 [] c = "7" -> 7
    [] c = "8" -> 8 [] c = "9" -> 9 [] c = "U+0663" -> 3

DigitChar(n) ==
  CASE n = 0 -> "0" [] n = 1 -> "1" [] n = 2 -> "2" [] n = 3 -> "3"
    [] n = 4 -> "4" [] n = 5 -> "5" [] n = 6 -> "6" [] n = 7 -> "7"
    [] n = 8 -> "8" [] n = 9 -> "9"

\* str.isdigit(): false of the empty string.
IsDigit(s) == Len(s) > 0 /\ \A i \in DOMAIN s : IsDigitChar(s[i])

\* int(s) of a string of digits.
RECURSIVE ParseInt(_)
ParseInt(s) ==
  IF Len(s) = 0 THEN 0
  ELSE 10 * ParseInt(SubSeq(s, 1, Len(s) - 1)) + DigitVal(s[Len(s)])

\* f'{n}' of a non-negative integer: decimal, no padding.
RECURSIVE FormatInt(_)
FormatInt(n) ==
  IF n < 10 THEN <<DigitChar(n)>>
  ELSE FormatInt(n \div 10) \o <<DigitChar(n % 10)>>

\* A directive such as %m or %d of strftime: zero-padded to a width.
RECURSIVE ZeroPad(_, _)
ZeroPad(s, width) == IF Len(s) >= width THEN s ELSE ZeroPad(<<"0">> \o s, width)

\* A literal piece of a formatted string.
Lit(text) == <<text>>

\* str.split on one separator character: the fields between the separators.
RECURSIVE SplitOn(_, _)
SplitOn(s, sep) ==
  IF \A i \in DOMAIN s : s[i] /= sep THEN <<s>>
  ELSE LET i == CHOOSE k \in DOMAIN s :
                  s[k] = sep /\ \A j \in 1..(k - 1) : s[j] /= sep
       IN  <<SubSeq(s, 1, i - 1)>> \o SplitOn(SubSeq(s, i + 1, Len(s)), sep)

(* ------------------------------ calendar ------------------------------ *)

IsLeap(y) == y % 4 = 0 /\ (y % 100 /= 0 \/ y % 400 = 0)

DaysInMonth(y, m) ==
  CASE m \in {1, 3, 5, 7, 8, 10, 12} -> 31
    [] m \in {4, 6, 9, 11} -> 30
    [] m = 2 -> IF IsLeap(y) THEN 29 ELSE 28

RECURSIVE DaysBeforeMonth(_, _)
DaysBeforeMonth(y, m) ==
  IF m = 1 THEN 0 ELSE DaysBeforeMonth(y, m - 1) + DaysInMonth(y, m - 1)

DaysBeforeYear(y) ==
  (y - 1) * 365 + (y - 1) \div 4 - (y - 1) \div 100 + (y - 1) \div 400

\* What the datetime constructor accepts.
IsDate(y, m, d) ==
  /\ y \in 1..9999
  /\ m \in 1..12
  /\ d >= 1
  /\ d <= DaysInMonth(y, m)

Date(y, m, d) == [year |-> y, month |-> m, day |-> d]

\* date.toordinal(): 1 is 0001-01-01.
ToOrdinal(dt) ==
  DaysBeforeYear(dt.year) + DaysBeforeMonth(dt.year, dt.month) + dt.day

\* date.fromordinal()
FromOrdinal(n) ==
  LET y == CHOOSE yy \in (n \div 366)..(n \div 365 + 1) :
             DaysBeforeYear(yy) < n /\ n <= DaysBeforeYear(yy + 1)
      r == n - DaysBeforeYear(y)
      m == CHOOSE mm \in 1..12 :
             DaysBeforeMonth(y, mm) < r
             /\ r <= DaysBeforeMonth(y, mm) + DaysInMonth(y, mm)
  IN  Date(y, m, r - DaysBeforeMonth(y, m))

\* date.weekday(): Monday is 0, Sunday is 6.
Weekday(dt) == (ToOrdinal(dt) + 6) % 7

\* datetime.strptime(value, fmt) for a format of three dot-separated numeric
\* directives, given as the order of the fields ("d", "m", "Y"): %d and %m
\* take one or two digits, %Y exactly four; the result is <<date>>, or <<>>
\* where strptime raises ValueError.
FieldOk(dir, f) ==
  /\ Len(f) > 0
  /\ \A i \in DOMAIN f : f[i] \in AsciiDigits
  /\ CASE dir = "Y" -> Len(f) = 4
       [] dir = "m" -> Len(f) <= 2 /\ ParseInt(f) \in 1..12
       [] dir = "d" -> Len(f) <= 2 /\ ParseInt(f) \in 1..31

Strptime(value, order) ==
  LET fs == SplitOn(value, ".")
  IN  IF Len(fs) /= 3 \/ \E i \in 1..3 : ~FieldOk(order[i], fs[i])
      THEN <<>>
      ELSE LET at(dir) == ParseInt(fs[CHOOSE i \in 1..3 : order[i] = dir])
           IN  IF IsDate(at("Y"), at("m"), at("d"))
               THEN <<Date(at("Y"), at("m"), at("d"))>>
               ELSE <<>>

\* strftime('%Y.%m.%d')
Strftime(dt) ==
  ZeroPad(FormatInt(dt.year), 4) \o <<".">> \o ZeroPad(FormatInt(dt.month), 2)
    \o <<".">> \o ZeroPad(FormatInt(dt.day), 2)

\* str(date): the ISO form.
IsoFormat(dt) ==
  ZeroPad(FormatInt(dt.year), 4) \o <<"-">> \o ZeroPad(FormatInt(dt.month), 2)
    \o <<"-">> \o ZeroPad(FormatInt(dt.day), 2)

(* ------------------------------- values ------------------------------- *)

\* What a call hands back: a returned value or a raised exception.  A value
\* is tagged with its Python type: "str" (the pieces of the string), "None",
\* "Birthday" (<<date>>), "Record" (<<record>>), "list" (the entries).
Value(t, v) == [t |-> t, v |-> v]
None == Value("None", <<>>)
Str(pieces) == Value("str", pieces)
Ret(value) == [kind |-> "return", exc |-> "", value |-> value]
Raise(exc) == [kind |-> "raise", exc |-> exc, value |-> None]

GiveCorrectValues ==
  Str(Lit("Give me correct values.\nType 'help' to see available commands."))
InvalidArguments ==
  Str(Lit("Invalid number of arguments.\nType 'help' to see available commands."))
ContactNotFound == Str(Lit("Contact not found"))
NoUpcomingBirthdays == Str(Lit("No upcoming birthdays."))

\* The decorator: ValueError and IndexError become guidance strings, every
\* other exception passes through.
input_error(out) ==
  IF out.kind = "raise" /\ out.exc = "ValueError" THEN Ret(GiveCorrectValues)
  ELSE IF out.kind = "raise" /\ out.exc = "IndexError" THEN Ret(InvalidArguments)
  ELSE out

(* ------------------------------- fields ------------------------------- *)

\* Phone._validate
Phone_validate(phone_number) ==
  IsDigit(phone_number) /\ Len(phone_number) = PhoneLen

\* Birthday.__init__: <<date>>, or <<>> where it raises ValueError.
Birthday(value) == Strptime(value, <<"d", "m", "Y">>)

(* ------------------------------- Record ------------------------------- *)

\* Record.__init__: birthday is <<>> for None, <<date>> once set.
Record(name) == [name |-> name, phones |-> <<>>, birthday |-> <<>>]

\* Record.add_phone: <<record>>, or <<>> where Phone() raises ValueError.
add_phone(record, phone) ==
  IF Phone_validate(phone)
  THEN <<[record EXCEPT !.phones = Append(@, phone)]>>
  ELSE <<>>

\* Record.edit_phone: the first phone equal to old_phone is assigned
\* new_phone; the loop falls through when none is.
edit_phone(record, old_phone, new_phone) ==
  IF \E i \in DOMAIN record.phones : record.phones[i] = old_phone
  THEN LET i == CHOOSE k \in DOMAIN record.phones :
                  /\ record.phones[k] = old_phone
                  /\ \A j \in 1..(k - 1) : record.phones[j] /= old_phone
       IN  [record EXCEPT !.phones[i] = new_phone]
  ELSE record

\* Record.add_birthday: <<record>>, or <<>> where Birthday() raises ValueError.
add_birthday(record, birthday) ==
  IF Birthday(birthday) = <<>> THEN <<>>
  ELSE <<[record EXCEPT !.birthday = Birthday(birthday)]>>

\* '; '.join(p.value for p in self.phones)
RECURSIVE Join(_, _)
Join(items, sep) ==
  IF Len(items) = 0 THEN <<>>
  ELSE IF Len(items) = 1 THEN items[1]
  ELSE items[1] \o sep \o Join(Tail(items), sep)

\* Record.__str__
Record_str(record) ==
  Lit("Contact name: ") \o record.name \o Lit(", phones: ")
    \o Join(record.phones, Lit("; "))
    \o (IF record.birthday = <<>> THEN <<>>
        ELSE Lit(", birthday: ") \o IsoFormat(record.birthday[1]))

(* ----------------------------- AddressBook ---------------------------- *)

\* self.data: a dict, kept as its items in insertion order.
Keys(d) == {d[i].key : i \in DOMAIN d}
IndexOf(d, key) == CHOOSE i \in DOMAIN d : d[i].key = key
Get(d, key) == d[IndexOf(d, key)].value
\* self.data[key] = value: an existing key keeps its place.
SetItem(d, key, value) ==
  IF key \in Keys(d) THEN [d EXCEPT ![IndexOf(d, key)].value = value]
  ELSE Append(d, [key |-> key, value |-> value])
\* del self.data[key]
DelItem(d, key) == SelectSeq(d, LAMBDA e : e.key /= key)

\* An operation's effect: the directory afterwards and what the call gave.
Effect(d, out) == [data |-> d, out |-> out]

\* AddressBook.find
find(d, name) ==
  IF name \in Keys(d) THEN Value("Record", <<Get(d, name)>>) ELSE ContactNotFound

\* AddressBook.add_record, below its decorator.
add_record_body(d, args) ==
  IF Len(args) < 1 THEN Effect(d, Raise("IndexError"))
  ELSE IF Len(args) < 2 THEN Effect(d, Raise("IndexError"))
  ELSE LET record == add_phone(Record(args[1]), args[2])
       IN  IF record = <<>> THEN Effect(d, Raise("ValueError"))
           ELSE Effect(SetItem(d, record[1].name, record[1]),
                       Ret(Str(Lit("Contact ") \o record[1].name
                                 \o Lit(" was added."))))

add_record(d, args) ==
  LET e == add_record_body(d, args) IN Effect(e.data, input_error(e.out))

\* delete written as self.data.pop(name, None): an absent name passes.
delete_pop(d, name) == Effect(DelItem(d, name), Ret(None))

\* AddressBook.delete
delete(d, name) ==
  IF name \in Keys(d) THEN Effect(DelItem(d, name), Ret(None))
  ELSE Effect(d, Raise("KeyError"))

\* The weekend shift with its test off by one (weekday() > 5): a Saturday
\* is left where it is.
CongratulationDate_SundayOnly(birthday_this_year) ==
  IF Weekday(birthday_this_year) > FirstWeekendDay
  THEN FromOrdinal(ToOrdinal(birthday_this_year)
                     + (DaysPerWeek - Weekday(birthday_this_year)))
  ELSE birthday_this_year

\* The weekend shift of get_upcoming_birthdays: a Saturday or Sunday moves
\* by 7 - weekday() days.
CongratulationDate(birthday_this_year) ==
  IF Weekday(birthday_this_year) >= FirstWeekendDay
  THEN FromOrdinal(ToOrdinal(birthday_this_year)
                     + (DaysPerWeek - Weekday(birthday_this_year)))
  ELSE birthday_this_year

\* (birthday_this_year - today).days: birthday_this_year is a midnight, today
\* is datetime.now() with its time of day (today.tod, in seconds).  The
\* subtraction takes the days and the seconds apart and normalises the
\* seconds into 0..86399, carrying the floor into the days.
Difference(birthday_this_year, today) ==
  (ToOrdinal(birthday_this_year) - ToOrdinal(today.date))
    + ((0 - today.tod) \div SecondsPerDay)

\* The f-string of the record's month and day in today's year, parsed back
\* with "%Y.%m.%d": <<date>>, or <<>> where strptime raises ValueError.
BirthdayThisYear(birthday, today) ==
  Strptime(FormatInt(today.date.year) \o <<".">> \o FormatInt(birthday.month)
             \o <<".">> \o FormatInt(birthday.day),
           <<"Y", "m", "d">>)

\* The loop of get_upcoming_birthdays from the i-th item on, upcoming being
\* the entries appended so far.
RECURSIVE Scan(_, _, _, _)
Scan(d, i, today, upcoming) ==
  IF i > Len(d) THEN Ret(Value("list", upcoming))
  ELSE LET user == d[i].value IN
       IF user.birthday = <<>> THEN Raise("AttributeError")
       ELSE LET bty == BirthdayThisYear(user.birthday[1], today) IN
            IF bty = <<>> THEN Raise("ValueError")
            ELSE LET difference == Difference(bty[1], today) IN
                 IF 0 <= difference /\ difference <= WindowDays
                 THEN Scan(d, i + 1, today,
                           Append(upcoming,
                                  [name |-> user.name,
                                   congratulation_date |->
                                     Strftime(CongratulationDate(bty[1]))]))
                 ELSE Scan(d, i + 1, today, upcoming)

\* AddressBook.get_upcoming_birthdays, today being datetime.now().
get_upcoming_birthdays(d, today) == Effect(d, Scan(d, 1, today, <<>>))

\* The items a Python unpacking or iteration takes from a str: its characters.
Iter(s) == [i \in DOMAIN s |-> <<s[i]>>]

\* AddressBook.change_record, below its decorator; args is what the
\* unpacking iterates over (the items of a list, the characters of a str).
change_record_body(d, args) ==
  IF Len(args) /= 3 THEN Effect(d, Raise("ValueError"))
  ELSE LET name == args[1]
           old_phone == args[2]
           new_phone == args[3]
       IN  IF name \in Keys(d)
           THEN Effect(SetItem(d, name, edit_phone(Get(d, name), old_phone, new_phone)),
                       Ret(Str(Lit("Phone number ") \o old_phone
                                 \o Lit(" was changed to ") \o new_phone
                                 \o Lit(" for contact ") \o name \o Lit("."))))
           ELSE Effect(d, Ret(find(d, name)))

change_record(d, args) ==
  LET e == change_record_body(d, args) IN Effect(e.data, input_error(e.out))

\* AddressBook.add_birthday, below its decorator.
add_birthday_body(d, args) ==
  IF Len(args) /= 2 THEN Effect(d, Raise("ValueError"))
  ELSE LET name == args[1]
           birthday == args[2]
       IN  IF name \notin Keys(d) THEN Effect(d, Ret(find(d, name)))
           ELSE LET record == add_birthday(Get(d, name), birthday) IN
                IF record = <<>> THEN Effect(d, Raise("ValueError"))
                ELSE Effect(SetItem(d, name, record[1]),
                            Ret(Str(Lit("Birthday ") \o birthday
                                      \o Lit(" was added to contact ") \o name
                                      \o Lit("."))))

AddressBook_add_birthday(d, args) ==
  LET e == add_birthday_body(d, args) IN Effect(e.data, input_error(e.out))

\* AddressBook.show_birthday, below its decorator: find() gives a str for an
\* unknown name, and a str has no attribute birthday.
show_birthday_body(d, args) ==
  IF Len(args) < 1 THEN Effect(d, Raise("IndexError"))
  ELSE LET record == find(d, args[1]) IN
       IF record.t /= "Record" THEN Effect(d, Raise("AttributeError"))
       ELSE IF record.v[1].birthday = <<>> THEN Effect(d, Ret(None))
       ELSE Effect(d, Ret(Value("Birthday", record.v[1].birthday)))

show_birthday(d, args) ==
  LET e == show_birthday_body(d, args) IN Effect(e.data, input_error(e.out))

\* f"{data['name']} - {data['congratulation_date']}" of each entry.
EntryLines(entries) ==
  [i \in DOMAIN entries |->
     entries[i].name \o Lit(" - ") \o entries[i].congratulation_date]

\* AddressBook.birthdays, below its decorator.
birthdays_body(d, today) ==
  LET upcoming_birthdays == get_upcoming_birthdays(d, today).out IN
  IF upcoming_birthdays.kind = "raise" THEN Effect(d, upcoming_birthdays)
  ELSE IF upcoming_birthdays.value.v = <<>> THEN Effect(d, Ret(NoUpcomingBirthdays))
  ELSE Effect(d, Ret(Str(Join(EntryLines(upcoming_birthdays.value.v), Lit("\n")))))

birthdays(d, today) ==
  LET e == birthdays_body(d, today) IN Effect(e.data, input_error(e.out))

\* AddressBook.all
all(d) == Effect(d, Ret(Str(Join([i \in DOMAIN d |-> Record_str(d[i].value)],
                                 Lit("\n")))))

(* ------------------------------- inputs ------------------------------- *)

NameA == <<"A">>
NameBen == <<"B", "e", "n">>
Names == {NameA, NameBen}

Phone1 == <<"0", "1", "2", "3", "4", "5", "6", "7", "8", "9">>
Phone2 == <<"5", "5", "5", "0", "0", "0", "1", "1", "1", "1">>
PhoneShort == <<"1", "2", "3", "4", "5">>
PhoneLetters == <<"1", "2", "3", "4", "5", "a", "b", "c", "d", "e">>
PhoneInputs == {Phone1, Phone2, PhoneShort, PhoneLetters}

Bday12Jun == <<"1", "2", ".", "0", "6", ".", "1", "9", "9", "0">>
Bday15Jun == <<"1", "5", ".", "0", "6", ".", "1", "9", "8", "5">>
Bday29Feb == <<"2", "9", ".", "0", "2", ".", "2", "0", "0", "0">>
Bday31Dec == <<"3", "1", ".", "1", "2", ".", "1", "9", "9", "9">>
Bday31Feb == <<"3", "1", ".", "0", "2", ".", "2", "0", "2", "0">>
BdayLetters == <<"a", "a", ".", "b", "b", ".", "c", "c", "c", "c">>
BirthdayInputs ==
  {Bday12Jun, Bday15Jun, Bday29Feb, Bday31Dec, Bday31Feb, BdayLetters}

\* An argument beyond the ones an operation reads.
Extra == <<"x">>

\* The days a query is made on: Horizon days from each base day, at the
\* start, the middle and the last second of the day.
BaseDays ==
  {Date(2024, 6, 7), Date(2022, 12, 24), Date(2023, 12, 24),
   Date(2024, 2, 25), Date(2025, 2, 25)}
Days == {FromOrdinal(ToOrdinal(b) + i) : b \in BaseDays, i \in 0..(Horizon - 1)}
TimesOfDay == {0, 43200, 86399}
Nows == {[date |-> dt, tod |-> t] : dt \in Days, t \in TimesOfDay}

\* The argument lists tried for an operation whose full lists are given:
\* every prefix of a full list, and every full list followed by extra
\* arguments, up to MaxArgs arguments.
ArgLists(full) ==
  UNION {{SubSeq(a, 1, k) : k \in 0..Len(a)}
           \cup {a \o [i \in 1..k |-> Extra] : k \in 0..(MaxArgs - Len(a))} :
         a \in full}

AddArgs == ArgLists({<<n, p>> : n \in Names, p \in PhoneInputs})
ChangeArgs ==
  ArgLists({<<n, o, p>> : n \in Names, o \in PhoneInputs, p \in PhoneInputs})
BirthdayArgs == ArgLists({<<n, b>> : n \in Names, b \in BirthdayInputs})
ShowArgs == ArgLists({<<n>> : n \in Names})

(* ------------------------------- state -------------------------------- *)

\* data: the directory.  last: the call made last and what it gave, until
\* the caller has taken it.  pc: where main() is.
VARIABLES data, last, pc

vars == <<data, last, pc>>

Call(op, args, now, out) == [op |-> op, args |-> args, now |-> now, out |-> out]
NoCall == Call("none", <<>>, <<>>, Ret(None))

Init == data = <<>> /\ last = NoCall /\ pc = "running"

\* The actions of a caller that holds the AddressBook and calls its
\* operations one at a time.

AddRecord ==
  \E args \in AddArgs :
    LET e == add_record(data, args) IN
    /\ last = NoCall
    /\ data' = e.data
    /\ last' = Call("add_record", args, <<>>, e.out)
    /\ UNCHANGED pc

ChangeRecord ==
  \E args \in ChangeArgs :
    LET e == change_record(data, args) IN
    /\ last = NoCall
    /\ data' = e.data
    /\ last' = Call("change_record", args, <<>>, e.out)
    /\ UNCHANGED pc

AddBirthday ==
  \E args \in BirthdayArgs :
    LET e == AddressBook_add_birthday(data, args) IN
    /\ last = NoCall
    /\ data' = e.data
    /\ last' = Call("add_birthday", args, <<>>, e.out)
    /\ UNCHANGED pc

ShowBirthday ==
  \E args \in ShowArgs :
    LET e == show_birthday(data, args) IN
    /\ last = NoCall
    /\ data' = e.data
    /\ last' = Call("show_birthday", args, <<>>, e.out)
    /\ UNCHANGED pc

Find ==
  \E name \in Names :
    /\ last = NoCall
    /\ last' = Call("find", <<name>>, <<>>, Ret(find(data, name)))
    /\ UNCHANGED <<data, pc>>

Delete ==
  \E name \in Names :
    LET e == delete(data, name) IN
    /\ last = NoCall
    /\ data' = e.data
    /\ last' = Call("delete", <<name>>, <<>>, e.out)
    /\ UNCHANGED pc

GetUpcomingBirthdays ==
  \E now \in Nows :
    LET e == get_upcoming_birthdays(data, now) IN
    /\ last = NoCall
    /\ data' = e.data
    /\ last' = Call("get_upcoming_birthdays", <<>>, <<now>>, e.out)
    /\ UNCHANGED pc

Birthdays ==
  \E now \in Nows :
    LET e == birthdays(data, now) IN
    /\ last = NoCall
    /\ data' = e.data
    /\ last' = Call("birthdays", <<>>, <<now>>, e.out)
    /\ UNCHANGED pc

All ==
  LET e == all(data) IN
  /\ last = NoCall
  /\ data' = e.data
  /\ last' = Call("all", <<>>, <<>>, e.out)
  /\ UNCHANGED pc

\* The caller takes the result; the next call starts from the directory.
Return == last /= NoCall /\ pc = "running" /\ last' = NoCall /\ UNCHANGED <<data, pc>>

Next ==
  \/ AddRecord
  \/ ChangeRecord
  \/ AddBirthday
  \/ ShowBirthday
  \/ Find
  \/ Delete
  \/ GetUpcomingBirthdays
  \/ Birthdays
  \/ All
  \/ Return

Spec == Init /\ [][Next]_vars

(* ------------------------------- main() ------------------------------- *)

\* str(x), as print(x) writes it.
Printed(value) ==
  CASE value.t = "str" -> value.v
    [] value.t = "None" -> Lit("None")
    [] value.t = "Birthday" -> IsoFormat(value.v[1])
    [] value.t = "Record" -> Record_str(value.v[1])

\* cmd.strip().lower() of the command words typed here.
Lower(cmd) ==
  CASE cmd = "EXIT" -> "exit"
    [] cmd = "Add" -> "add"
    [] OTHER -> cmd

HelpText == Str(Lit("Available commands: hello, add <username> <phone>, ")
                  \o Lit("change <username> <phone>, phone <username>, all, ")
                  \o Lit("add-birthday <username> <birthday>, ")
                  \o Lit("show-birthday <username>, birthdays"))

\* A single argument of three characters, which change_record unpacks into
\* a name and two phones.
ChangeToken == <<"A", "0", "1">>

ShellChangeArgs == ChangeArgs \cup {<<ChangeToken>>}

\* The words of a line after parse_input: the command word and the rest.
Words == {"close", "exit", "EXIT", "hello", "add", "Add", "change", "phone",
          "all", "add-birthday", "show-birthday", "birthdays", "help", "bye"}
Cases == {"close", "exit", "hello", "add", "change", "phone", "all",
          "add-birthday", "show-birthday", "birthdays", "help"}

\* contacts.change_record(*args): the words are spread over the parameters
\* of a method that takes one, which it unpacks.
change_record_spread(d, args) ==
  IF Len(args) /= 1 THEN Effect(d, Raise("TypeError"))
  ELSE change_record(d, Iter(args[1]))

\* contacts.find(args[0]), outside any decorator.
find_first(d, args) ==
  IF Len(args) < 1 THEN Effect(d, Raise("IndexError"))
  ELSE Effect(d, Ret(find(d, args[1])))

\* What the try block gives for the value a case prints or the exception it
\* raises: the printed text; except ValueError prints the error; any other
\* exception leaves main().
Try(out) ==
  IF out.kind = "raise"
  THEN IF out.exc = "ValueError" THEN Ret(Str(Lit("ValueError"))) ELSE out
  ELSE Ret(Str(Printed(out.value)))

\* The place of main() after a pass of the loop: an exception that left the
\* try block ends the process, close and exit break out of the loop.
After(command, printed) ==
  IF printed.kind = "raise" THEN "crashed"
  ELSE IF command \in {"close", "exit"} THEN "exited"
  ELSE "running"

\* One pass of the while loop taken from the prompt, on a line whose command
\* word is `command` once lower-cased: e is what the matching case does.
Pass(command, args, now, e) ==
  /\ pc = "running"
  /\ last = NoCall
  /\ data' = e.data
  /\ last' = Call(command, args, now, Try(e.out))
  /\ pc' = After(command, last'.out)

\* parse_input of a line without words: the unpacking raises ValueError,
\* which except ValueError prints.
ShellEmptyLine ==
  /\ pc = "running"
  /\ last = NoCall
  /\ last' = Call("", <<>>, <<>>,
                  Ret(Str(Lit("not enough values to unpack (expected at least 1, got 0)"))))
  /\ UNCHANGED <<data, pc>>

ShellExit ==
  \E word \in Words :
    /\ Lower(word) \in {"close", "exit"}
    /\ Pass(Lower(word), <<>>, <<>>, Effect(data, Ret(Str(Lit("Good bye!")))))

ShellHello ==
  \E word \in Words :
    /\ Lower(word) = "hello"
    /\ Pass("hello", <<>>, <<>>, Effect(data, Ret(Str(Lit("How can I help you?")))))

ShellAdd ==
  \E word \in Words, args \in AddArgs :
    /\ Lower(word) = "add"
    /\ Pass("add", args, <<>>, add_record(data, args))

ShellChange ==
  \E word \in Words, args \in ShellChangeArgs :
    /\ Lower(word) = "change"
    /\ Pass("change", args, <<>>, change_record_spread(data, args))

ShellPhone ==
  \E word \in Words, args \in ShowArgs :
    /\ Lower(word) = "phone"
    /\ Pass("phone", args, <<>>, find_first(data, args))

ShellAll ==
  \E word \in Words :
    /\ Lower(word) = "all"
    /\ Pass("all", <<>>, <<>>, all(data))

ShellAddBirthday ==
  \E word \in Words, args \in BirthdayArgs :
    /\ Lower(word) = "add-birthday"
    /\ Pass("add-birthday", args, <<>>, AddressBook_add_birthday(data, args))

ShellShowBirthday ==
  \E word \in Words, args \in ShowArgs :
    /\ Lower(word) = "show-birthday"
    /\ Pass("show-birthday", args, <<>>, show_birthday(data, args))

ShellBirthdays ==
  \E word \in Words, now \in Nows :
    /\ Lower(word) = "birthdays"
    /\ Pass("birthdays", <<>>, <<now>>, birthdays(data, now))

ShellHelp ==
  \E word \in Words :
    /\ Lower(word) = "help"
    /\ Pass("help", <<>>, <<>>, Effect(data, Ret(HelpText)))

\* case _
ShellInvalid ==
  \E word \in Words :
    /\ Lower(word) \notin Cases
    /\ Pass(Lower(word), <<>>, <<>>, Effect(data, Ret(Str(Lit("Invalid command.")))))

\* The loop comes back to input(): the line printed is behind.
Prompt == pc = "running" /\ last /= NoCall /\ last' = NoCall /\ UNCHANGED <<data, pc>>

ShellNext ==
  \/ ShellExit
  \/ ShellHello
  \/ ShellAdd
  \/ ShellChange
  \/ ShellPhone
  \/ ShellAll
  \/ ShellAddBirthday
  \/ ShellShowBirthday
  \/ ShellBirthdays
  \/ ShellHelp
  \/ ShellInvalid
  \/ ShellEmptyLine
  \/ Prompt

\* main() with no data file: load() leaves the directory empty.
ShellSpec == Init /\ [][ShellNext]_vars

(* ------------------------------- claims ------------------------------- *)

SameValue(a, b) == a.t = b.t /\ a.v = b.v

Records == {data[i].value : i \in DOMAIN data}
HasBirthday(e) == e.value.birthday /= <<>>
\* The occurrence of a birthday in the year of a day, as a calendar day
\* (which 29 February is not in a year that is not leap).
OccurrenceExists(birthday, day) == IsDate(day.year, birthday.month, birthday.day)
Occurrence(birthday, day) == Date(day.year, birthday.month, birthday.day)
DaysAhead(birthday, day) == ToOrdinal(Occurrence(birthday, day)) - ToOrdinal(day)
Entries == last.out.value.v
Listed(name) == \E k \in DOMAIN Entries : Entries[k].name = name

\* C1: every phone stored in every record of the directory is a string of
\* exactly 10 digits, whatever operations were called.
C1_StoredPhonesAreTenDigits ==
  \A r \in Records : \A j \in DOMAIN r.phones :
    /\ Len(r.phones[j]) = 10
    /\ \A k \in DOMAIN r.phones[j] : r.phones[j][k] \in AsciiDigits

\* C2: a scan that returns lists a record iff its occurrence in the current
\* year lies from today through 7 days after today, whatever the time of day.
C2_ListedIffWithinSevenDays ==
  (last.op = "get_upcoming_birthdays" /\ last.out.kind = "return") =>
    \A r \in Records :
      Listed(r.name) <=>
        /\ r.birthday /= <<>>
        /\ OccurrenceExists(r.birthday[1], last.now[1].date)
        /\ DaysAhead(r.birthday[1], last.now[1].date) \in 0..7

\* C3: a scan of a directory holding a record without a birthday completes
\* and returns what the scan of the records that have one returns; when no
\* record has a birthday, birthdays() renders "No upcoming birthdays.".
C3_RecordsWithoutBirthdayAreSkipped ==
  LET withBirthday == SelectSeq(data, HasBirthday) IN
  /\ (/\ last.op = "get_upcoming_birthdays"
      /\ withBirthday /= data
      /\ get_upcoming_birthdays(withBirthday, last.now[1]).out.kind = "return")
       => /\ last.out.kind = "return"
          /\ Entries = get_upcoming_birthdays(withBirthday, last.now[1]).out.value.v
  /\ (last.op = "birthdays" /\ withBirthday = <<>>)
       => last.out.kind = "return" /\ SameValue(last.out.value, NoUpcomingBirthdays)

\* C4: a scan of records that all have a birthday, one of which has no
\* occurrence in the current year, completes and returns what the scan of
\* the other records returns.
C4_UnprojectableBirthdayIsSkipped ==
  LET projectable(e) == OccurrenceExists(e.value.birthday[1], last.now[1].date)
      others == SelectSeq(data, projectable)
  IN  (/\ last.op = "get_upcoming_birthdays"
       /\ \A i \in DOMAIN data : HasBirthday(data[i])
       /\ others /= data)
        => /\ last.out.kind = "return"
           /\ Entries = get_upcoming_birthdays(others, last.now[1]).out.value.v

\* C5: the congratulation date of every entry a scan returns is no Saturday
\* or Sunday: an occurrence on a weekday is reported as it is, one on a
\* Saturday or Sunday as the first Monday after it, 7 - weekday days later.
C5_CongratulationNeverOnWeekend ==
  (last.op = "get_upcoming_birthdays" /\ last.out.kind = "return") =>
    \A k \in DOMAIN Entries :
      LET reported == Strptime(Entries[k].congratulation_date, <<"Y", "m", "d">>)
          occurrence == Occurrence(Get(data, Entries[k].name).birthday[1],
                                   last.now[1].date)
          w == Weekday(occurrence)
      IN  /\ reported /= <<>>
          /\ Weekday(reported[1]) \notin {5, 6}
          /\ w < 5 => reported[1] = occurrence
          /\ w >= 5 =>
               /\ ToOrdinal(reported[1]) = ToOrdinal(occurrence) + (7 - w)
               /\ Weekday(reported[1]) = 0
               /\ \A n \in (ToOrdinal(occurrence) + 1)..(ToOrdinal(reported[1]) - 1) :
                    Weekday(FromOrdinal(n)) /= 0

\* C5's case: a scan returned an entry whose occurrence is on a weekend and
\* an entry whose occurrence is on a weekday.
C5_Witness ==
  /\ last.op = "get_upcoming_birthdays"
  /\ last.out.kind = "return"
  /\ \E k \in DOMAIN Entries :
       Weekday(Occurrence(Get(data, Entries[k].name).birthday[1],
                          last.now[1].date)) >= 5
  /\ \E k \in DOMAIN Entries :
       Weekday(Occurrence(Get(data, Entries[k].name).birthday[1],
                          last.now[1].date)) < 5

\* The number of arguments each command of the shell takes.
Arity(command) ==
  CASE command \in {"add", "add-birthday"} -> 2
    [] command = "change" -> 3
    [] command \in {"phone", "show-birthday"} -> 1

\* A line with a validation failure: a bad phone for add or change, a bad
\* date for add-birthday.
BadValue(command, args) ==
  /\ Len(args) = Arity(command)
  /\ \/ command = "add" /\ ~Phone_validate(args[2])
     \/ command = "change" /\ ~Phone_validate(args[3])
     \/ command = "add-birthday" /\ Birthday(args[2]) = <<>>

Guidance(out) ==
  /\ out.kind = "return"
  /\ \/ out.value.v = GiveCorrectValues.v
     \/ out.value.v = InvalidArguments.v

\* C6: a line of the shell with a validation failure or with a wrong number
\* of arguments for add, change, phone, add-birthday or show-birthday prints
\* a guidance message and the loop goes on.
C6_BadLineGivesGuidance ==
  (/\ last.op \in {"add", "change", "phone", "add-birthday", "show-birthday"}
   /\ Len(last.args) /= Arity(last.op) \/ BadValue(last.op, last.args))
    => pc = "running" /\ Guidance(last.out)

\* C7: show_birthday of one name returns: the stored birthday, None when the
\* contact has none, the not-found sentinel when there is no such contact.
C7_ShowBirthdayThreeOutcomes ==
  (last.op = "show_birthday" /\ Len(last.args) = 1) =>
    /\ last.out.kind = "return"
    /\ IF last.args[1] \notin Keys(data)
       THEN SameValue(last.out.value, ContactNotFound)
       ELSE IF Get(data, last.args[1]).birthday = <<>>
       THEN SameValue(last.out.value, None)
       ELSE SameValue(last.out.value,
                      Value("Birthday", Get(data, last.args[1]).birthday))

\* What change_record returns for these arguments when a phone was replaced:
\* its result on a directory whose record of that name holds the old phone.
ReplacedResult(args) ==
  change_record(<<[key |-> args[1],
                   value |-> [Record(args[1]) EXCEPT !.phones = <<args[2]>>]]>>,
                args).out.value

\* C8: change_record for an existing contact that has no phone equal to the
\* old phone leaves the record unchanged and returns a result that differs
\* from the one returned when a phone was replaced.
C8_MissingPhoneSignalsNotFound ==
  [][(/\ last'.op = "change_record"
      /\ Len(last'.args) = 3
      /\ last'.args[1] \in Keys(data)
      /\ \A j \in DOMAIN Get(data, last'.args[1]).phones :
           Get(data, last'.args[1]).phones[j] /= last'.args[2])
       => /\ data' = data
          /\ last'.out.kind = "return"
          /\ ~SameValue(last'.out.value, ReplacedResult(last'.args))]_vars

\* C9: add_record with a name and a valid phone, and nothing else, maps the
\* name to a fresh record holding just that phone and no birthday and leaves
\* every other entry as it was; add_record with an invalid phone or another
\* number of arguments leaves the directory as it was.
C9_AddRecordFrame ==
  [][last'.op = "add_record" =>
       IF Len(last'.args) = 2 /\ Phone_validate(last'.args[2])
       THEN /\ Keys(data') = Keys(data) \cup {last'.args[1]}
            /\ Get(data', last'.args[1])
                 = [name |-> last'.args[1], phones |-> <<last'.args[2]>>,
                    birthday |-> <<>>]
            /\ \A k \in Keys(data) \ {last'.args[1]} : Get(data', k) = Get(data, k)
       ELSE data' = data]_vars

\* C10: delete of a name in the directory removes that entry, so that find
\* gives the not-found sentinel, and leaves the other entries as they were;
\* delete of an absent name raises KeyError and leaves the directory as it was.
C10_DeleteRemovesExactlyThatEntry ==
  [][last'.op = "delete" =>
       IF last'.args[1] \in Keys(data)
       THEN /\ last'.out.kind = "return"
            /\ Keys(data') = Keys(data) \ {last'.args[1]}
            /\ \A k \in Keys(data') : Get(data', k) = Get(data, k)
            /\ SameValue(find(data', last'.args[1]), ContactNotFound)
       ELSE /\ last'.out.kind = "raise"
            /\ last'.out.exc = "KeyError"
            /\ data' = data]_vars

\* C10's case: a delete returned and left another entry, with its phone and
\* birthday, in the directory.
C10_Witness ==
  /\ last.op = "delete"
  /\ last.out.kind = "return"
  /\ \E r \in Records : r.birthday /= <<>> /\ r.name /= last.args[1]
====
